---- MODULE Spec2Model ----
(***************************************************************************)
(* Model of the NewsLanding component                                      *)
(* (src/src/shared/components/home/news-landing.tsx).                      *)
(*                                                                         *)
(* Spec      : the component's life cycle - construction (with or without  *)
(*             a hydration snapshot), the mount step, fetchAll() calls,    *)
(*             the resolution of their fetches, rendering and retry.       *)
(* SpecCloud : the pure function buildTagCloud applied to bounded post     *)
(*             lists.                                                      *)
(* SpecPost  : renderNewsPost and renderGalleryItem applied to one post.   *)
(* SpecLive  : Spec with a transport that answers the requests it is sent. *)
(* SpecSync  : Spec with every Retry click made on an up-to-date screen.   *)
(***************************************************************************)
EXTENDS Integers, Sequences, FiniteSets, TLC

VARIABLES
    isBrowser,   \* isBrowser(): the execution context (browser or server-side rendering)
    state,       \* this.state: the three slots and isIsomorphic
    pc,          \* "constructed" | "mounted"
    calls,       \* the fetchAll() invocations issued so far, in order of issue
    view,        \* what the last render put on the page, per section
    posts,       \* SpecCloud: the post list handed to buildTagCloud
    cloud,       \* SpecCloud: the last result of buildTagCloud
    postView,    \* SpecPost: the post handed to renderNewsPost / renderGalleryItem
    article      \* SpecPost: what the last of these calls rendered

vars == <<isBrowser, state, pc, calls, view, posts, cloud, postView, article>>

-----------------------------------------------------------------------------
(* Bounds *)

MaxCalls == 2      \* fetchAll() invocations per behaviour
MaxPosts == 5      \* posts in a list handed to buildTagCloud

-----------------------------------------------------------------------------
(* Request states (services/HttpService) *)

EMPTY_REQUEST == [state |-> "empty"]

LOADING_REQUEST == [state |-> "loading"]

\* A promise of getPosts that has not settled yet.
PENDING == [promise |-> "pending"]

\* The state fields holding a slot, in the order of the Promise.all array.
Feeds == <<"newsPosts", "galleryPosts", "localTopPosts">>

FeedSet == {Feeds[i] : i \in 1..Len(Feeds)}

\* The transport's messages on a fault.
Messages == {"network timeout"}

\* What the transport answers to one getPosts request: a well-formed page,
\* identified by the request that produced it (req = 0: the server-side
\* request of fetchInitialData), or a fault with a message.
TransportOk(req, feed) == [ok |-> TRUE, page |-> <<req, feed>>]

TransportFault(msg) == [ok |-> FALSE, message |-> msg]

Outcomes(req, feed) ==
    {TransportOk(req, feed)} \cup {TransportFault(m) : m \in Messages}

\* wrapClient: the wrapped client never rejects; it resolves to a success
\* state with the response or to a failed state with the raw error.
wrapClient(o) ==
    IF o.ok THEN [state |-> "success", data |-> o.page]
            ELSE [state |-> "failed", err |-> [message |-> o.message]]

-----------------------------------------------------------------------------
(* Construction *)

\* isoData.routeData when the page was not delivered with a snapshot.
NoRouteData == [none |-> TRUE]

\* static fetchInitialData: three wrapped getPosts, awaited together.
fetchInitialData(so) ==
    [newsPosts     |-> wrapClient(so["newsPosts"]),
     galleryPosts  |-> wrapClient(so["galleryPosts"]),
     localTopPosts |-> wrapClient(so["localTopPosts"])]

\* The state field initialiser.
initialState ==
    [newsPosts     |-> EMPTY_REQUEST,
     galleryPosts  |-> EMPTY_REQUEST,
     localTopPosts |-> EMPTY_REQUEST,
     isIsomorphic  |-> FALSE]

\* A constructor that takes the gallery slot and the top slot from each
\* other's snapshot entry.
constructorSwapped(isFirstLoad, routeData) ==
    IF isFirstLoad
    THEN [newsPosts     |-> routeData.newsPosts,
          galleryPosts  |-> routeData.localTopPosts,
          localTopPosts |-> routeData.galleryPosts,
          isIsomorphic  |-> TRUE]
    ELSE initialState

\* constructor: on first load the slots are taken from the snapshot.
constructor(isFirstLoad, routeData) ==
    IF isFirstLoad
    THEN [newsPosts     |-> routeData.newsPosts,
          galleryPosts  |-> routeData.galleryPosts,
          localTopPosts |-> routeData.localTopPosts,
          isIsomorphic  |-> TRUE]
    ELSE initialState

-----------------------------------------------------------------------------
(* fetchAll *)

\* A fetchAll that marks the slots one setState at a time: only the first
\* is applied before the fetches are issued.
fetchAllBeginOneSlot(st) == [st EXCEPT !.newsPosts = LOADING_REQUEST]

\* A fetchAll that re-fetches the failed feeds only.
fetchAllBeginFailedOnly(st) ==
    [f \in DOMAIN st |->
        IF f # "isIsomorphic" /\ st[f].state \in {"failed", "empty"}
        THEN LOADING_REQUEST ELSE st[f]]

\* The first setState of fetchAll: one update object with the three slots.
fetchAllBegin(st) ==
    [st EXCEPT !.newsPosts     = LOADING_REQUEST,
               !.galleryPosts  = LOADING_REQUEST,
               !.localTopPosts = LOADING_REQUEST]

\* A fetchAll() invocation right after its three getPosts were issued.
NewCall(by) ==
    [by |-> by, newsPosts |-> PENDING, galleryPosts |-> PENDING,
     localTopPosts |-> PENDING, returned |-> FALSE]

AllSettled(call) == \A f \in FeedSet : call[f] # PENDING

FirstFailed(call) ==
    call[Feeds[CHOOSE i \in 1..Len(Feeds) :
                 /\ call[Feeds[i]].state = "failed"
                 /\ \A j \in 1..(i - 1) : call[Feeds[j]].state # "failed"]]

\* A continuation for a client whose failures reject: one failed fetch
\* fails the three slots.
fetchAllEndFailAll(st, call) ==
    IF \E f \in FeedSet : call[f].state = "failed"
    THEN [st EXCEPT !.newsPosts     = FirstFailed(call),
                    !.galleryPosts  = FirstFailed(call),
                    !.localTopPosts = FirstFailed(call)]
    ELSE [st EXCEPT !.newsPosts     = call.newsPosts,
                    !.galleryPosts  = call.galleryPosts,
                    !.localTopPosts = call.localTopPosts]

\* A continuation that forgets the top slot.
fetchAllEndPartial(st, call) ==
    [st EXCEPT !.newsPosts    = call.newsPosts,
               !.galleryPosts = call.galleryPosts]

\* The second setState of fetchAll, after the await.
fetchAllEnd(st, call) ==
    [st EXCEPT !.newsPosts     = call.newsPosts,
               !.galleryPosts  = call.galleryPosts,
               !.localTopPosts = call.localTopPosts]

\* Three separate awaits: each slot is written as soon as its fetch settled.
awaitAllEager(st, cs, c) ==
    [f \in DOMAIN st |->
        IF f # "isIsomorphic" /\ cs[c][f] # PENDING THEN cs[c][f] ELSE st[f]]

\* An await with a generation guard: only the most recent call writes.
awaitAllGuarded(st, cs, c) ==
    IF AllSettled(cs[c]) /\ c = Len(cs) THEN fetchAllEnd(st, cs[c]) ELSE st

\* An await whose continuation is lost when one of the promises brought a
\* failure.
awaitAllSuccessOnly(st, cs, c) ==
    IF AllSettled(cs[c]) /\ \A f \in FeedSet : cs[c][f].state = "success"
    THEN fetchAllEnd(st, cs[c]) ELSE st

\* An await that keeps what a later call's continuation has written.
awaitAllKeepsNewer(st, cs, c) ==
    IF AllSettled(cs[c]) /\ \A d \in 1..Len(cs) : d > c => ~cs[d].returned
    THEN fetchAllEnd(st, cs[c]) ELSE st

\* await Promise.all([...]) of call c: the continuation runs once all
\* three promises settled, and not before.
awaitAll(st, cs, c) ==
    IF AllSettled(cs[c]) THEN fetchAllEnd(st, cs[c]) ELSE st

-----------------------------------------------------------------------------
(* Rendering of the sections *)

Sections == {"news", "gallery", "localTop", "tagCloud"}

renderError(err) == [kind |-> "error", message |-> err.message, retry |-> TRUE]

Spinner == [kind |-> "spinner", retry |-> FALSE]

Fragment == [kind |-> "nothing", retry |-> FALSE]

\* The posts of a successful slot (or the notice that there are none).
Content == [kind |-> "content", retry |-> FALSE]

\* A rendering that offers Retry beside the spinner as well.
renderSlotRetryWhileLoading(slot) ==
    CASE slot.state = "loading" -> [kind |-> "spinner", retry |-> TRUE]
      [] slot.state = "failed"  -> renderError(slot.err)
      [] slot.state = "success" -> Content
      [] OTHER                  -> Fragment

renderSlot(slot) ==
    CASE slot.state = "loading" -> Spinner
      [] slot.state = "failed"  -> renderError(slot.err)
      [] slot.state = "success" -> Content
      [] OTHER                  -> Fragment

renderNewsPosts(st) == renderSlot(st.newsPosts)

renderGalleryContent(st) == renderSlot(st.galleryPosts)

renderLocalTopContent(st) == renderSlot(st.localTopPosts)

renderTagCloud(st) == renderSlot(st.localTopPosts)

render(st) ==
    [news     |-> renderNewsPosts(st),
     gallery  |-> renderGalleryContent(st),
     localTop |-> renderLocalTopContent(st),
     tagCloud |-> renderTagCloud(st)]

NotRendered == [s \in Sections |-> Fragment]

-----------------------------------------------------------------------------
(* The component's life cycle *)

CloudIdle == posts = <<>> /\ cloud = [built |-> FALSE]

PostIdle == postView = [none |-> TRUE] /\ article = [kind |-> "none"]

Init ==
    /\ isBrowser \in BOOLEAN
    /\ \E isFirstLoad \in BOOLEAN :
         \E so \in [FeedSet -> UNION {Outcomes(0, f) : f \in FeedSet}] :
            /\ \A f \in FeedSet : so[f] \in Outcomes(0, f)
            /\ LET routeData == IF isFirstLoad THEN fetchInitialData(so)
                                                ELSE NoRouteData
               IN  state = constructor(isFirstLoad, routeData)
    /\ pc = "constructed"
    /\ calls = <<>>
    /\ view = NotRendered
    /\ CloudIdle
    /\ PostIdle

\* A mount condition without the execution-context test.
ShouldFetchOnMountAnywhere(st, browser) == ~st.isIsomorphic

\* The condition of componentWillMount.
ShouldFetchOnMount(st, browser) == ~st.isIsomorphic /\ browser

\* componentWillMount, followed by the first render.
componentWillMount ==
    /\ pc = "constructed"
    /\ pc' = "mounted"
    /\ IF ShouldFetchOnMount(state, isBrowser)
       THEN /\ state' = fetchAllBegin(state)
            /\ calls' = Append(calls, NewCall("mount"))
       ELSE UNCHANGED <<state, calls>>
    /\ view' = render(state')
    /\ UNCHANGED <<isBrowser, posts, cloud, postView, article>>

\* A click on the Retry button that the last render put into a section:
\* the handler is () => this.fetchAll().
Retry(sec) ==
    /\ pc = "mounted"
    /\ isBrowser
    /\ view[sec].retry
    /\ Len(calls) < MaxCalls
    /\ state' = fetchAllBegin(state)
    /\ calls' = Append(calls, NewCall("retry"))
    /\ UNCHANGED <<isBrowser, pc, view, posts, cloud, postView, article>>

\* The framework re-renders the component after a state update.
Render ==
    /\ pc = "mounted"
    /\ isBrowser
    /\ view # render(state)
    /\ view' = render(state)
    /\ UNCHANGED <<isBrowser, state, pc, calls, posts, cloud, postView, article>>

\* The transport answers fetch f of call c; when it was the last of the
\* three, the continuation of that fetchAll() runs.
FetchResolved(c, f, o) ==
    /\ c \in 1..Len(calls)
    /\ calls[c][f] = PENDING
    /\ LET call == [calls[c] EXCEPT ![f] = wrapClient(o)]
       IN  /\ calls' = [calls EXCEPT ![c] =
                          [call EXCEPT !.returned = AllSettled(call)]]
           /\ state' = awaitAll(state, [calls EXCEPT ![c] = call], c)
    /\ UNCHANGED <<isBrowser, pc, view, posts, cloud, postView, article>>

Next ==
    \/ componentWillMount
    \/ \E sec \in Sections : Retry(sec)
    \/ Render
    \/ \E c \in 1..MaxCalls, f \in FeedSet :
          \E o \in Outcomes(c, f) : FetchResolved(c, f, o)

Spec == Init /\ [][Next]_vars

\* The transport answers the requests it was sent, with a page or with a
\* fault: while a request is unanswered, some answer arrives.  Every
\* behaviour in which each single request is eventually answered satisfies
\* this condition.
Fairness ==
    WF_vars(\E c \in 1..MaxCalls, f \in FeedSet :
               \E o \in Outcomes(c, f) : FetchResolved(c, f, o))

SpecLive == Init /\ [][Next]_vars /\ Fairness

\* A click on a Retry button on a screen that shows the current state: the
\* framework has rendered every state update before the user acts.
RetryRendered(sec) ==
    /\ view = render(state)
    /\ Retry(sec)

NextSync ==
    \/ componentWillMount
    \/ \E sec \in Sections : RetryRendered(sec)
    \/ Render
    \/ \E c \in 1..MaxCalls, f \in FeedSet :
          \E o \in Outcomes(c, f) : FetchResolved(c, f, o)

SpecSync == Init /\ [][NextSync]_vars

-----------------------------------------------------------------------------
(* buildTagCloud *)

\* Strings are sequences of characters.
Undefined == <<"undefined">>

Truthy(str) == str # Undefined /\ str # <<>>

\* a || b
OrElse(a, b) == IF Truthy(a) THEN a ELSE b

IsSpace(ch) == ch = " "

RECURSIVE trimStart(_)
trimStart(str) ==
    IF str # <<>> /\ IsSpace(Head(str)) THEN trimStart(Tail(str)) ELSE str

RECURSIVE trimEnd(_)
trimEnd(str) ==
    IF str # <<>> /\ IsSpace(str[Len(str)])
    THEN trimEnd(SubSeq(str, 1, Len(str) - 1)) ELSE str

\* String.prototype.trim
trim(str) == trimEnd(trimStart(str))

\* (tag.display_name || tag.name || "").trim()
labelOf(tag) == trim(OrElse(OrElse(tag.display_name, tag.name), <<>>))

\* String.prototype.toLowerCase on the letters that occur in the labels.
lowerChar(ch) ==
    CASE ch = "F" -> "f"
      [] ch = "I" -> "i"
      [] ch = "M" -> "m"
      [] ch = "N" -> "n"
      [] ch = "S" -> "s"
      [] OTHER    -> ch

toLowerCase(str) == [i \in 1..Len(str) |-> lowerChar(str[i])]

\* hasMiniTag: the label is lower-cased, it is not trimmed, and deleted
\* tags count.
hasMiniTag(tags) ==
    \E i \in 1..Len(tags) :
        toLowerCase(OrElse(OrElse(tags[i].display_name, tags[i].name), <<>>))
            = <<"m", "i", "n", "i">>

\* The index of label in the map's entries, 0 when it is not a key.
IndexOfKey(entries, label) ==
    IF \E i \in 1..Len(entries) : entries[i][1] = label
    THEN CHOOSE i \in 1..Len(entries) : entries[i][1] = label
    ELSE 0

\* counts.set(label, (counts.get(label) ?? 0) + 1): a Map keeps its keys in
\* the order of their first insertion.
countsSet(entries, label) ==
    LET i == IndexOfKey(entries, label)
    IN  IF i = 0 THEN Append(entries, <<label, 1>>)
                 ELSE [entries EXCEPT ![i] = <<label, entries[i][2] + 1>>]

\* A loop body without the test of the deleted flag.
countTagKeepDeleted(entries, tag) ==
    LET label == labelOf(tag)
    IN  IF label = <<>> THEN entries ELSE countsSet(entries, label)

\* The body of the inner loop for one tag.
countTag(entries, tag) ==
    IF tag.deleted THEN entries
    ELSE LET label == labelOf(tag)
         IN  IF label = <<>> THEN entries ELSE countsSet(entries, label)

RECURSIVE countTags(_, _)
countTags(entries, tags) ==
    IF tags = <<>> THEN entries
    ELSE countTags(countTag(entries, Head(tags)), Tail(tags))

\* Loops that leave out the posts rendered in condensed mode.
RECURSIVE countPostsSkipMini(_, _)
countPostsSkipMini(entries, ps) ==
    IF ps = <<>> THEN entries
    ELSE IF hasMiniTag(Head(ps).tags)
         THEN countPostsSkipMini(entries, Tail(ps))
         ELSE countPostsSkipMini(countTags(entries, Head(ps).tags), Tail(ps))

\* The two loops: Array.from(counts.entries()) after all posts.
RECURSIVE countPosts(_, _)
countPosts(entries, ps) ==
    IF ps = <<>> THEN entries
    ELSE countPosts(countTags(entries, Head(ps).tags), Tail(ps))

Counts(entries) == {entries[i][2] : i \in 1..Len(entries)}

MaxOf(S) == CHOOSE m \in S : \A x \in S : x <= m

MinOf(S) == CHOOSE m \in S : \A x \in S : m <= x

\* The comparator a[1] - b[1]: ascending counts.
RECURSIVE insertSortedAscending(_, _)
insertSortedAscending(sorted, e) ==
    IF sorted = <<>> THEN <<e>>
    ELSE IF Head(sorted)[2] <= e[2]
         THEN <<Head(sorted)>> \o insertSortedAscending(Tail(sorted), e)
         ELSE <<e>> \o sorted

\* Insertion of e behind every entry that the comparator b[1] - a[1] does
\* not put after it: the sort is stable.
RECURSIVE insertSorted(_, _)
insertSorted(sorted, e) ==
    IF sorted = <<>> THEN <<e>>
    ELSE IF Head(sorted)[2] >= e[2]
         THEN <<Head(sorted)>> \o insertSorted(Tail(sorted), e)
         ELSE <<e>> \o sorted

\* entries.sort((a, b) => b[1] - a[1])
RECURSIVE sortEntries(_, _)
sortEntries(sorted, entries) ==
    IF entries = <<>> THEN sorted
    ELSE sortEntries(insertSorted(sorted, Head(entries)), Tail(entries))

\* Sizes are in thousandths of a rem.
minSize == 850

maxSize == 1600

\* Where the real value minSize + (maxSize - minSize) * n / d lies exactly
\* halfway between two hundredths, the binary64 value does not: the double
\* computed for n / d = 1/2 is 1.2250000000000000888 (above the tie), for
\* 1/6 it is below and for 5/6 above.
TieRoundsUp(n, d) ==
    IF 2 * n = d THEN TRUE
    ELSE IF 6 * n = d THEN FALSE
    ELSE TRUE

\* parseFloat((minSize + (maxSize - minSize) * ratio).toFixed(2)) for the
\* ratio n / d: the nearest hundredth, in thousandths.
toFixed2(n, d) ==
    LET num  == minSize * d + (maxSize - minSize) * n   \* value * d
        q    == num \div (10 * d)                        \* hundredths, floor
        r    == num % (10 * d)
    IN  IF 2 * r > 10 * d THEN 10 * (q + 1)
        ELSE IF 2 * r < 10 * d THEN 10 * q
        ELSE IF TieRoundsUp(n, d) THEN 10 * (q + 1) ELSE 10 * q

\* A scale that runs the wrong way: the most frequent label is the smallest.
sizeOfInverted(count, min, max) ==
    IF max = min THEN toFixed2(1, 2) ELSE toFixed2(max - count, max - min)

\* A scale that treats equal counts as the top of the range.
sizeOfEqualIsMax(count, min, max) ==
    IF max = min THEN toFixed2(1, 1) ELSE toFixed2(count - min, max - min)

\* One entry of the result.
sizeOf(count, min, max) ==
    IF max = min THEN toFixed2(1, 2) ELSE toFixed2(count - min, max - min)

buildTagCloud(ps) ==
    LET entries == countPosts(<<>>, ps)
    IN  IF entries = <<>> THEN <<>>
        ELSE LET max    == MaxOf(Counts(entries))
                 min    == MinOf(Counts(entries))
                 sorted == sortEntries(<<>>, entries)
             IN  [i \in 1..Len(sorted) |->
                    [name |-> sorted[i][1],
                     size |-> sizeOf(sorted[i][2], min, max)]]

-----------------------------------------------------------------------------
(* buildTagCloud on bounded post lists *)

Str_Funny == <<"F", "u", "n", "n", "y">>

Str_funny == <<"f", "u", "n", "n", "y">>

Str_Serious == <<"S", "e", "r", "i", "o", "u", "s">>

Str_Mini == <<"M", "i", "n", "i">>

Tag(name, display_name, deleted) ==
    [name |-> name, display_name |-> display_name, deleted |-> deleted]

TagFunny == Tag(Str_Funny, Undefined, FALSE)

TagSerious == Tag(Str_Serious, <<>>, FALSE)

TagMini == Tag(<<"m">>, Str_Mini, FALSE)

\* display_name with surrounding blanks
TagFunnyPadded == Tag(<<"x">>, <<" ">> \o Str_Funny \o <<" ", " ">>, FALSE)

TagFunnyLower == Tag(Str_funny, Undefined, FALSE)

TagDeleted == Tag(Str_Serious, Undefined, TRUE)

\* a display_name of blanks only hides the name
TagBlank == Tag(Str_Funny, <<" ", " ">>, FALSE)

\* The posts (their tags) the lists are made of.
PostPool ==
    { [tags |-> <<>>],
      [tags |-> <<TagFunny>>],
      [tags |-> <<TagFunny, TagSerious>>],
      [tags |-> <<TagFunny, TagSerious, TagMini>>],
      [tags |-> <<TagMini, TagSerious>>],
      [tags |-> <<TagFunnyPadded, TagFunnyLower>>],
      [tags |-> <<TagDeleted, TagBlank>>] }

NotBuilt == [built |-> FALSE]

LifeCycleIdle ==
    /\ isBrowser = FALSE
    /\ state = initialState
    /\ pc = "constructed"
    /\ calls = <<>>
    /\ view = NotRendered

InitCloud ==
    /\ posts = <<>>
    /\ cloud = NotBuilt
    /\ LifeCycleIdle
    /\ PostIdle

\* The top feed delivers one more post.
AddPost(p) ==
    /\ Len(posts) < MaxPosts
    /\ posts' = Append(posts, p)
    /\ cloud' = NotBuilt
    /\ UNCHANGED <<isBrowser, state, pc, calls, view, postView, article>>

\* renderTagCloud on a successful top feed: this.buildTagCloud(posts).
BuildTagCloud ==
    /\ cloud = NotBuilt
    /\ cloud' = [built |-> TRUE, tags |-> buildTagCloud(posts)]
    /\ UNCHANGED <<posts, isBrowser, state, pc, calls, view, postView, article>>

NextCloud ==
    \/ \E p \in PostPool : AddPost(p)
    \/ BuildTagCloud

SpecCloud == InitCloud /\ [][NextCloud]_vars

-----------------------------------------------------------------------------
(* renderNewsPost, renderGalleryItem and getImageUrl *)

\* An optional string field that is absent.
Undef == "undefined"

TruthyStr(x) == x # Undef /\ x # ""

UrlImage == "https://img.example/cat.png"

UrlPage == "https://news.example/story"

ThumbImage == "https://pictrs.example/thumb.webp"

ThumbOther == "https://pictrs.example/thumb"

DetailsLink == "https://pictrs.example/full"

\* isImage of @utils/media: the predicate accepts these URLs.
isImage(url) == url \in {UrlImage, ThumbImage}

\* hostname of @utils/helpers.
hostname(url) ==
    CASE url = UrlImage -> "img.example"
      [] url = UrlPage  -> "news.example"
      [] OTHER          -> "pictrs.example"

\* mdToHtml of @utils/markdown.
mdToHtml(body) == [html |-> body]

NoImageDetails == [absent |-> TRUE]

\* Something that is not rendered.
NoElement == [absent |-> TRUE]

\* postView.image_details?.link
imageDetailsLink(pv) ==
    IF pv.image_details = NoImageDetails THEN Undef ELSE pv.image_details.link

\* A resolution that asks the predicate about url first.
getImageUrlUrlFirst(pv) ==
    IF TruthyStr(pv.url) /\ isImage(pv.url) THEN pv.url
    ELSE IF TruthyStr(imageDetailsLink(pv)) THEN imageDetailsLink(pv)
    ELSE IF TruthyStr(pv.thumbnail_url) /\ isImage(pv.thumbnail_url)
         THEN pv.thumbnail_url
    ELSE Undef

\* A resolution that takes any thumbnail_url.
getImageUrlAnyThumbnail(pv) ==
    IF TruthyStr(imageDetailsLink(pv)) THEN imageDetailsLink(pv)
    ELSE IF TruthyStr(pv.url) /\ isImage(pv.url) THEN pv.url
    ELSE IF TruthyStr(pv.thumbnail_url) THEN pv.thumbnail_url
    ELSE Undef

getImageUrl(pv) ==
    IF TruthyStr(imageDetailsLink(pv)) THEN imageDetailsLink(pv)
    ELSE IF TruthyStr(pv.url) /\ isImage(pv.url) THEN pv.url
    ELSE IF TruthyStr(pv.thumbnail_url) /\ isImage(pv.thumbnail_url)
         THEN pv.thumbnail_url
    ELSE Undef

\* A link condition that forgets the image.
showHostLinkBesideImage(url, isMini, imageUrl) == TruthyStr(url) /\ ~isMini

\* url && !isMini && !imageUrl
showHostLink(url, isMini, imageUrl) ==
    TruthyStr(url) /\ ~isMini /\ ~TruthyStr(imageUrl)

renderNewsPost(pv) ==
    LET isMini   == hasMiniTag(pv.tags)
        imageUrl == IF ~isMini THEN getImageUrl(pv) ELSE Undef
    IN  [kind     |-> "news",
         hostLink |-> IF showHostLink(pv.url, isMini, imageUrl)
                      THEN [href |-> pv.url, text |-> hostname(pv.url)]
                      ELSE NoElement,
         image    |-> IF TruthyStr(imageUrl)
                      THEN [src    |-> imageUrl,
                            href   |-> IF pv.url # Undef THEN pv.url ELSE imageUrl,
                            target |-> IF TruthyStr(pv.url) THEN "_blank" ELSE Undef]
                      ELSE NoElement,
         body     |-> IF ~isMini /\ TruthyStr(pv.body)
                      THEN mdToHtml(pv.body) ELSE NoElement]

\* this.getImageUrl(postView) ?? postView.post.thumbnail_url
renderGalleryItem(pv) ==
    LET resolved  == getImageUrl(pv)
        thumbnail == IF resolved # Undef THEN resolved ELSE pv.thumbnail_url
    IN  [kind  |-> "gallery",
         image |-> IF TruthyStr(thumbnail) THEN [src |-> thumbnail]
                                           ELSE NoElement]

-----------------------------------------------------------------------------
(* The two renderings on bounded posts *)

TagMiniUpper == Tag(<<"M", "I", "N", "I">>, Undefined, FALSE)

TagMiniPadded == Tag(<<"x">>, <<" ">> \o Str_Mini \o <<" ">>, FALSE)

TagMiniDeleted == Tag(Str_Mini, <<>>, TRUE)

TagLists ==
    { <<>>,
      <<TagFunny>>,
      <<TagFunny, TagMini>>,
      <<TagMiniUpper>>,
      <<TagMiniPadded>>,
      <<TagMiniDeleted, TagFunny>> }

PostViews ==
    [url           : {Undef, "", UrlImage, UrlPage},
     thumbnail_url : {Undef, ThumbImage, ThumbOther},
     body          : {Undef, "", "text"},
     image_details : {NoImageDetails, [link |-> ""], [link |-> DetailsLink]},
     tags          : TagLists]

NotRenderedPost == [kind |-> "none"]

InitPost ==
    /\ postView \in PostViews
    /\ article = NotRenderedPost
    /\ LifeCycleIdle
    /\ CloudIdle

\* renderNewsPosts on a successful news feed: this.renderNewsPost(post).
RenderNewsPost ==
    /\ article = NotRenderedPost
    /\ article' = renderNewsPost(postView)
    /\ UNCHANGED <<postView, isBrowser, state, pc, calls, view, posts, cloud>>

\* renderGalleryContent on a successful gallery feed.
RenderGalleryItem ==
    /\ article = NotRenderedPost
    /\ article' = renderGalleryItem(postView)
    /\ UNCHANGED <<postView, isBrowser, state, pc, calls, view, posts, cloud>>

NextPost == RenderNewsPost \/ RenderGalleryItem

SpecPost == InitPost /\ [][NextPost]_vars

-----------------------------------------------------------------------------
(* Properties of the life cycle *)

AllLoading(st) == \A f \in FeedSet : st[f] = LOADING_REQUEST

NoneLoading(st) == \A f \in FeedSet : st[f] # LOADING_REQUEST

AllPending(call) == \A f \in FeedSet : call[f] = PENDING

\* A fetchAll() call is issued in this step.
Issued == Len(calls') = Len(calls) + 1

\* Fetch f of call c settles in this step.
Settles(c, f) == calls[c][f] = PENDING /\ calls'[c][f] # PENDING

\* The continuation of call c runs in this step.
Returns(c) == ~calls[c].returned /\ calls'[c].returned

\* The results a getPosts promise of call c for feed f can settle to.
Results(c, f) == {wrapClient(o) : o \in Outcomes(c, f)}

\* The slot a section reads.
SlotOf(sec) ==
    CASE sec = "news"     -> "newsPosts"
      [] sec = "gallery"  -> "galleryPosts"
      [] sec = "localTop" -> "localTopPosts"
      [] sec = "tagCloud" -> "localTopPosts"

\* C1: every fetchAll() call puts the three slots into Loading in the one
\* step that issues its three fetches (no state at fetch start has only some
\* of the slots Loading), and a slot holds a result of a call only after
\* that call's await, hence after the three slots were Loading for it.
C1_LoadingTogether ==
    /\ [][Issued => /\ AllLoading(state')
                    /\ AllPending(calls'[Len(calls')])]_vars
    /\ [](\A c \in 1..Len(calls) : \A f \in FeedSet :
            (state[f].state = "success" /\ state[f].data = <<c, f>>)
                => calls[c].returned)

C1_Witness ==
    /\ Len(calls) >= 1
    /\ AllPending(calls[Len(calls)])
    /\ AllLoading(state)

\* C2 (as stated): with a hydration snapshot the mount step never invokes
\* fetchAll() and the three slots start in Success, whatever the outcome of
\* the server-side fetches.
C2_Original ==
    state.isIsomorphic =>
        /\ \A c \in 1..Len(calls) : calls[c].by # "mount"
        /\ pc = "constructed" => \A f \in FeedSet : state[f].state = "success"

\* C2 (amended): with a hydration snapshot the mount step never invokes
\* fetchAll() and every slot starts with the snapshot's request state of its
\* own feed: Success with that feed's page where the server-side fetch
\* succeeded, Failed with the transport's message where it faulted.
C2_Amended ==
    state.isIsomorphic =>
        /\ \A c \in 1..Len(calls) : calls[c].by # "mount"
        /\ calls = <<>> => \A f \in FeedSet : state[f] \in Results(0, f)

C2_Witness ==
    /\ pc = "mounted"
    /\ state.isIsomorphic
    /\ calls = <<>>
    /\ state.newsPosts.state = "success"
    /\ state.galleryPosts.state = "failed"

\* C3: the mount step invokes fetchAll() if and only if no snapshot was
\* supplied and the code runs in a browser; in a server-side rendering
\* context the component never issues a fetch.
C3_MountFetchIff ==
    /\ pc = "mounted" =>
         ((\E c \in 1..Len(calls) : calls[c].by = "mount")
            <=> (~state.isIsomorphic /\ isBrowser))
    /\ ~isBrowser => calls = <<>>

C3_Witness ==
    /\ pc = "mounted"
    /\ isBrowser
    /\ ~state.isIsomorphic
    /\ Len(calls) = 1
    /\ calls[1].by = "mount"

\* C4: when the continuation of a fetchAll() call runs, every slot gets the
\* outcome of its own feed's fetch - Success with that feed's page or Failed
\* with the transport's message - whatever the outcomes of the other two;
\* and the continuation runs whenever the three fetches have settled.
C4_FailureLocal ==
    /\ [][\A c \in 1..Len(calls) :
            Returns(c) => \A f \in FeedSet :
                             /\ state'[f] = calls'[c][f]
                             /\ state'[f] \in Results(c, f)]_vars
    /\ [](\A c \in 1..Len(calls) : AllSettled(calls[c]) => calls[c].returned)

C4_Witness ==
    \E c \in 1..Len(calls) :
        /\ calls[c].returned
        /\ state.newsPosts = [state |-> "success", data |-> <<c, "newsPosts">>]
        /\ state.galleryPosts =
              [state |-> "failed", err |-> [message |-> "network timeout"]]
        /\ state.localTopPosts =
              [state |-> "success", data |-> <<c, "localTopPosts">>]

\* C5: a section renders a retry button exactly when its slot is Failed; a
\* retry is a full fetchAll(): the three slots go to Loading and three
\* fetches are issued; no step re-issues a fetch of a single feed.
C5_RetryIsFetchAll ==
    /\ [](\A sec \in Sections :
            render(state)[sec].retry <=> state[SlotOf(sec)].state = "failed")
    /\ [][(Issued /\ calls'[Len(calls')].by = "retry")
            => /\ AllLoading(state')
               /\ AllPending(calls'[Len(calls')])]_vars
    /\ [][\A c \in 1..Len(calls) : \A f \in FeedSet :
            calls[c][f] # PENDING => calls'[c][f] = calls[c][f]]_vars

\* A retry was activated after a call that had left the news slot in Success.
C5_Witness ==
    /\ Len(calls) = 2
    /\ calls[1].returned
    /\ calls[1].newsPosts.state = "success"
    /\ calls[1].galleryPosts.state = "failed"
    /\ calls[2].by = "retry"
    /\ AllPending(calls[2])
    /\ AllLoading(state)

\* C6 (as stated): as soon as one feed's fetch resolves, that feed's slot
\* becomes Success or Failed, even while another fetch of the same call is
\* unresolved.
C6_Original ==
    [][\A c \in 1..Len(calls) : \A f \in FeedSet :
         Settles(c, f) => state'[f].state \in {"success", "failed"}]_vars

\* C6 (amended): a fetch that resolves while another fetch of the same call
\* is unresolved writes nothing (its slot stays as it was, Loading when no
\* other call has written since); the three slots are written together in
\* the step in which the last of the three fetches settles.
C6_Amended ==
    [][\A c \in 1..Len(calls) : \A f \in FeedSet :
         Settles(c, f) =>
            IF AllSettled(calls'[c])
            THEN \A g \in FeedSet : state'[g] = calls'[c][g]
            ELSE state' = state]_vars

C6_Witness ==
    \E c \in 1..Len(calls) :
        /\ calls[c].newsPosts # PENDING
        /\ calls[c].galleryPosts = PENDING
        /\ state.newsPosts = LOADING_REQUEST

\* C7: the slots are updated in one batch, so in every reachable state -
\* overlapping calls and hydrated starts included - either the three slots
\* are all Loading or none of them is.
C7_AllOrNoneLoading == AllLoading(state) \/ NoneLoading(state)

\* A hydrated component with two overlapping calls, the older of which has
\* written its results while the newer is in flight.
C7_Witness ==
    /\ state.isIsomorphic
    /\ Len(calls) = 2
    /\ calls[1].returned
    /\ ~calls[2].returned
    /\ \E f \in FeedSet : calls[2][f] # PENDING
    /\ NoneLoading(state)

\* C8 (as stated): once a newer fetchAll() call has been issued, the
\* continuation of an older, still in-flight call never writes a result
\* into any slot.
C8_Original ==
    [][\A c \in 1..Len(calls) :
         (Returns(c) /\ c < Len(calls)) => state' = state]_vars

\* C8 (amended): there is no guard on the generation of a call: when the
\* fetches of an older call settle after a newer call was issued, the older
\* call's continuation still writes its three results into the slots.
C8_Amended ==
    [][\A c \in 1..Len(calls) :
         (Returns(c) /\ c < Len(calls))
            => \A f \in FeedSet : state'[f] = calls'[c][f]]_vars

C8_Witness ==
    /\ Len(calls) = 2
    /\ calls[1].returned
    /\ AllPending(calls[2])
    /\ \A f \in FeedSet : state[f] = calls[1][f]

\* C16: the continuation of a fetchAll() call writes its three results
\* whatever calls were issued after it and whether or not they have
\* finished, and results get into the slots in no other way: the slots hold
\* the results of the continuation that ran last, not those of the call
\* issued last.
C16_LastContinuationWins ==
    [][/\ \A c \in 1..Len(calls) :
            Returns(c) => /\ \A f \in FeedSet : state'[f] = calls'[c][f]
                          /\ NoneLoading(state')
       /\ (state' # state /\ ~Issued) => \E c \in 1..Len(calls) : Returns(c)
      ]_vars

\* Both calls have finished, the older one last: the slots hold the older
\* call's pages although the newer call brought pages of its own.
C16_Witness ==
    /\ Len(calls) = 2
    /\ calls[1].returned /\ calls[2].returned
    /\ \A f \in FeedSet :
          /\ calls[2][f] = wrapClient(TransportOk(2, f))
          /\ state[f] = wrapClient(TransportOk(1, f))

\* Every slot holds a result.
Settled(st) == \A f \in FeedSet : st[f].state \in {"success", "failed"}

\* Call c is the only call in flight.
OnlyInFlight(cs, c) ==
    /\ c \in 1..Len(cs)
    /\ \A d \in 1..Len(cs) : cs[d].returned <=> d # c

\* C19: when every fetch that was sent is answered, the three Loading slots
\* of a fetchAll() call - overlapping calls included - lead to a state where
\* no slot is Loading and each is Success or Failed; and while some fetch of
\* the only call in flight is unanswered, the three slots stay Loading,
\* those whose own fetch was answered included.
C19_LoadingEnds ==
    /\ AllLoading(state) ~> (NoneLoading(state) /\ Settled(state))
    /\ [][\A c \in 1..Len(calls) :
             ( /\ AllLoading(state)
               /\ OnlyInFlight(calls, c)
               /\ OnlyInFlight(calls', c) )
             => AllLoading(state')]_vars

\* Two overlapping calls have both finished, the older one last (its page
\* is in the news slot although the newer call brought a fault there); a
\* fault is among the results shown and no slot is Loading.
C19_Witness ==
    /\ Len(calls) = 2
    /\ calls[1].returned /\ calls[2].returned
    /\ calls[2].newsPosts.state = "failed"
    /\ state.newsPosts = wrapClient(TransportOk(1, "newsPosts"))
    /\ state.galleryPosts.state = "failed"
    /\ Settled(state)

\* The calls in flight: issued, continuation not yet run.
InFlight == {c \in 1..Len(calls) : ~calls[c].returned}

\* C20: when fetchAll() is started only by the mount step and by the Retry
\* buttons, and every state update is rendered before the next click, at
\* most one fetchAll() call is in flight at any time.
C20_AtMostOneInFlight == Cardinality(InFlight) <= 1

\* A retry is in flight after the call before it has finished.
C20_Witness ==
    /\ Len(calls) = 2
    /\ calls[1].returned
    /\ calls[2].by = "retry"
    /\ InFlight = {2}
    /\ AllLoading(state)

-----------------------------------------------------------------------------
(* Properties of buildTagCloud *)

\* The qualifying tag occurrences of label in the post list.
Occurrences(label) ==
    {ij \in UNION {{<<i, j>> : j \in 1..Len(posts[i].tags)} : i \in 1..Len(posts)} :
        /\ ~posts[ij[1]].tags[ij[2]].deleted
        /\ labelOf(posts[ij[1]].tags[ij[2]]) = label}

Occ(label) == Cardinality(Occurrences(label))

CloudBuilt == cloud # NotBuilt /\ cloud.tags # <<>>

CloudOccs == {Occ(cloud.tags[i].name) : i \in 1..Len(cloud.tags)}

\* C9 (as stated): for a post list with a qualifying tag every size lies in
\* [0.85, 1.60] and the most frequent label has size exactly 1.60.
C9_Original ==
    CloudBuilt =>
        \A i \in 1..Len(cloud.tags) :
            /\ cloud.tags[i].size >= minSize
            /\ cloud.tags[i].size <= maxSize
            /\ Occ(cloud.tags[i].name) = MaxOf(CloudOccs)
                  => cloud.tags[i].size = maxSize

\* C9 (amended): for a post list with a qualifying tag every size lies in
\* [0.85, 1.60]; when the occurrence counts are not all equal, every size is
\* 0.85 + 0.75 * (c - min) / (max - min) to the nearest hundredth and the
\* most frequent label has size exactly 1.60.
C9_Amended ==
    CloudBuilt =>
        LET max == MaxOf(CloudOccs)
            min == MinOf(CloudOccs)
        IN  \A i \in 1..Len(cloud.tags) :
              LET c     == Occ(cloud.tags[i].name)
                  size  == cloud.tags[i].size
                  exact == 850 * (max - min) + 750 * (c - min)
              IN  /\ size >= 850
                  /\ size <= 1600
                  /\ size % 10 = 0
                  /\ max > min =>
                       /\ size * (max - min) - exact <= 5 * (max - min)
                       /\ exact - size * (max - min) <= 5 * (max - min)
                       /\ c = max => size = 1600

\* Three labels with three different counts, one of them strictly inside
\* the range and not at its midpoint.
C9_Witness ==
    /\ CloudBuilt
    /\ Len(cloud.tags) >= 3
    /\ cloud.tags[1].size = 1600
    /\ \E i \in 1..Len(cloud.tags) :
          cloud.tags[i].size \notin {850, 1230, 1600}

\* C10 (as stated): when all qualifying labels have the same occurrence
\* count, every entry has size exactly 1.225.
C10_Original ==
    (CloudBuilt /\ MaxOf(CloudOccs) = MinOf(CloudOccs)) =>
        \A i \in 1..Len(cloud.tags) : cloud.tags[i].size = 1225

\* C10 (amended): when all qualifying labels have the same occurrence
\* count, every entry has size 1.23: the midpoint 1.225 after toFixed(2).
C10_Amended ==
    (CloudBuilt /\ MaxOf(CloudOccs) = MinOf(CloudOccs)) =>
        \A i \in 1..Len(cloud.tags) : cloud.tags[i].size = 1230

C10_Witness ==
    /\ CloudBuilt
    /\ Len(cloud.tags) >= 2
    /\ \A i \in 1..Len(cloud.tags) : Occ(cloud.tags[i].name) = 2

\* The qualifying tag occurrences of the post list: not deleted, and the
\* label not empty after trimming.
Qualifying ==
    {ij \in UNION {{<<i, j>> : j \in 1..Len(posts[i].tags)} : i \in 1..Len(posts)} :
        /\ ~posts[ij[1]].tags[ij[2]].deleted
        /\ labelOf(posts[ij[1]].tags[ij[2]]) # <<>>}

QualifyingLabels == {labelOf(posts[ij[1]].tags[ij[2]]) : ij \in Qualifying}

CloudNames == {cloud.tags[i].name : i \in 1..Len(cloud.tags)}

\* C11: no entry of buildTagCloud comes from a deleted tag only or has an
\* empty label; the empty list and a list whose tags are all deleted or
\* empty-labelled give the empty sequence.
C11_ExcludesDeletedAndEmpty ==
    cloud # NotBuilt =>
        /\ \A i \in 1..Len(cloud.tags) :
              /\ cloud.tags[i].name # <<>>
              /\ Occ(cloud.tags[i].name) >= 1
        /\ Qualifying = {} => cloud.tags = <<>>

\* A list with a deleted and an empty-labelled tag and nothing else.
C11_Witness ==
    /\ cloud # NotBuilt
    /\ Len(posts) >= 2
    /\ \E i \in 1..Len(posts) : Len(posts[i].tags) = 2
    /\ Qualifying = {}
    /\ cloud.tags = <<>>

\* C15: the mini-marker has no effect on the tag cloud: every qualifying
\* tag, those of posts with a mini tag and the label Mini included, has its
\* entry; Funny x5, Serious x4, Mini x3 give Funny (1.60), Serious, Mini.
C15_MiniCounts ==
    cloud # NotBuilt =>
        /\ \A l \in QualifyingLabels : l \in CloudNames
        /\ (Occ(Str_Funny) = 5 /\ Occ(Str_Serious) = 4 /\ Occ(Str_Mini) = 3
               /\ QualifyingLabels = {Str_Funny, Str_Serious, Str_Mini})
             => cloud.tags = << [name |-> Str_Funny,   size |-> 1600],
                                [name |-> Str_Serious, size |-> 1230],
                                [name |-> Str_Mini,    size |-> 850] >>

C15_Witness ==
    /\ cloud # NotBuilt
    /\ \E i \in 1..Len(posts) : hasMiniTag(posts[i].tags)
    /\ Occ(Str_Funny) = 5
    /\ Occ(Str_Serious) = 4
    /\ Occ(Str_Mini) = 3
    /\ Len(cloud.tags) = 3

\* C17: buildTagCloud returns one entry per distinct qualifying label
\* (labels compared exactly after trimming), the count kept for a label is
\* the number of its non-deleted occurrences, and the entries are in the
\* order of non-increasing counts.
C17_OneEntryPerLabel ==
    cloud # NotBuilt =>
        /\ CloudNames = QualifyingLabels
        /\ \A i, k \in 1..Len(cloud.tags) :
              i # k => cloud.tags[i].name # cloud.tags[k].name
        /\ LET entries == countPosts(<<>>, posts)
           IN  \A i \in 1..Len(entries) : entries[i][2] = Occ(entries[i][1])
        /\ \A i \in 1..(Len(cloud.tags) - 1) :
              Occ(cloud.tags[i].name) >= Occ(cloud.tags[i + 1].name)

\* Funny and funny are two entries, and the label counted first is not the
\* most frequent one.
C17_Witness ==
    /\ cloud # NotBuilt
    /\ Str_Funny \in CloudNames
    /\ Str_funny \in CloudNames
    /\ Len(cloud.tags) >= 3
    /\ countPosts(<<>>, posts)[1][1] # cloud.tags[1].name
    /\ Occ(cloud.tags[1].name) > Occ(cloud.tags[2].name)

-----------------------------------------------------------------------------
(* Properties of the renderings *)

\* A mini-marker: the display label (display_name if not empty, else name,
\* trimmed), lower-cased, is "mini".
IsMiniMarker(tag) == toLowerCase(labelOf(tag)) = <<"m", "i", "n", "i">>

HasMiniMarker == \E i \in 1..Len(postView.tags) : IsMiniMarker(postView.tags[i])

\* The priority: the details link, else url if the predicate accepts it,
\* else thumbnail_url if the predicate accepts it, else nothing.
PriorityImage ==
    IF TruthyStr(imageDetailsLink(postView)) THEN imageDetailsLink(postView)
    ELSE IF TruthyStr(postView.url) /\ isImage(postView.url) THEN postView.url
    ELSE IF TruthyStr(postView.thumbnail_url) /\ isImage(postView.thumbnail_url)
         THEN postView.thumbnail_url
    ELSE Undef

NoImageCandidate == PriorityImage = Undef

ImageSrc == IF article.image = NoElement THEN Undef ELSE article.image.src

\* C12: for a post with a mini-marker tag the news-post rendering shows no
\* image and no body markup, whatever url, thumbnail_url, the details link
\* and body are.
C12_MiniSuppresses ==
    (article.kind = "news" /\ HasMiniMarker) =>
        /\ article.image = NoElement
        /\ article.body = NoElement

\* C13: with a non-empty details link X the resolved image is X, whatever
\* url and thumbnail_url are and whatever the predicate says about them.
C13_DetailsLinkFirst ==
    TruthyStr(imageDetailsLink(postView)) =>
        /\ article.kind = "gallery" => ImageSrc = imageDetailsLink(postView)
        /\ (article.kind = "news" /\ ~hasMiniTag(postView.tags))
              => ImageSrc = imageDetailsLink(postView)

C13_Witness ==
    /\ article.kind = "news"
    /\ postView.url = UrlImage
    /\ postView.thumbnail_url = ThumbImage
    /\ ImageSrc = DetailsLink

\* C14 (as stated): for a post with no image candidate the news-post
\* rendering shows the hostname of url as a link if url is present and no
\* link content if it is absent; hostname link and image never both appear.
C14_Original ==
    article.kind = "news" =>
        /\ ~(article.hostLink # NoElement /\ article.image # NoElement)
        /\ NoImageCandidate =>
              IF TruthyStr(postView.url)
              THEN article.hostLink =
                      [href |-> postView.url, text |-> hostname(postView.url)]
              ELSE article.hostLink = NoElement /\ article.image = NoElement

\* C14 (amended): the same for the posts that hasMiniTag does not put into
\* condensed mode; a condensed post shows neither hostname link nor image.
C14_Amended ==
    article.kind = "news" =>
        /\ ~(article.hostLink # NoElement /\ article.image # NoElement)
        /\ hasMiniTag(postView.tags) =>
              article.hostLink = NoElement /\ article.image = NoElement
        /\ (NoImageCandidate /\ ~hasMiniTag(postView.tags)) =>
              IF TruthyStr(postView.url)
              THEN article.hostLink =
                      [href |-> postView.url, text |-> hostname(postView.url)]
              ELSE article.hostLink = NoElement /\ article.image = NoElement

C14_Witness ==
    /\ article.kind = "news"
    /\ NoImageCandidate
    /\ postView.thumbnail_url = ThumbOther
    /\ article.hostLink = [href |-> UrlPage, text |-> "news.example"]
    /\ article.image = NoElement

\* C18 (as stated): in the news post and in the gallery item the displayed
\* image follows the priority; a thumbnail_url or url that the predicate
\* rejects is never displayed as the image.
C18_Original ==
    /\ (article.kind = "news" /\ ~hasMiniTag(postView.tags))
          => ImageSrc = PriorityImage
    /\ article.kind = "gallery" => ImageSrc = PriorityImage

\* C18 (amended): the news post follows the priority; the gallery item
\* follows it and, when it gives nothing, falls back on thumbnail_url
\* without asking the predicate; a url that the predicate rejects is never
\* displayed as the image.
C18_Amended ==
    /\ (article.kind = "news" /\ ~hasMiniTag(postView.tags))
          => ImageSrc = PriorityImage
    /\ article.kind = "gallery" =>
          IF PriorityImage # Undef THEN ImageSrc = PriorityImage
          ELSE IF TruthyStr(postView.thumbnail_url)
               THEN ImageSrc = postView.thumbnail_url
               ELSE ImageSrc = Undef
    /\ (article.kind # "none" /\ ImageSrc # Undef /\ ImageSrc = postView.url)
          => isImage(postView.url)

\* A gallery item that shows a thumbnail the predicate rejects.
C18_Witness ==
    /\ article.kind = "gallery"
    /\ PriorityImage = Undef
    /\ postView.url = UrlPage
    /\ ImageSrc = ThumbOther

====
